---------------------------- MODULE Spec2Model ----------------------------
(***************************************************************************)
(* Model of the Sora image generator: the with_retry decorator, the       *)
(* helpers of sora_utils.py (check_for_errors, wait_for_image_generation, *)
(* wait_for_element, download_image, validate_image, the global timeout)  *)
(* and main of generate_image_from_prompt.py with the helpers of          *)
(* stealth_launcher.py it calls.                                          *)
(*                                                                         *)
(* Two specifications:                                                     *)
(*   SpecRetry  a function wrapped by with_retry, called once; every call  *)
(*              of the function either returns a value or raises.          *)
(*   Spec       one run of main; the page, the files and the alarm are the *)
(*              environment.                                               *)
(***************************************************************************)
EXTENDS Integers, Sequences, FiniteSets, TLC

(***************************************************************************)
(* Bounds of the model.                                                    *)
(***************************************************************************)
\* largest max_retries (CONFIG["MAX_RETRIES"] / the decorator's argument)
MaxRetries == 3
\* longest content of prompt.txt, in characters
MaxPromptLen == 2
\* largest timeout argument of wait_for_element, in seconds
MaxWaitArg == 2
\* largest elapsed_time argument of log_session_result, in tenths of a second
MaxElapsed == 2
\* number of calls of generate_image_filename in one behaviour
MaxNameCalls == 2
\* largest number of cookies in session.json
MaxCookies == 2
\* wait_for_image_generation's timeout, in seconds (GENERATION_TIMEOUT, scaled)
GenTimeout == 5

(***************************************************************************)
(* Program constants.                                                      *)
(***************************************************************************)
\* DEFAULT_CONFIG["MAX_RETRIES"]
DEFAULT_MAX_RETRIES == 3
\* DEFAULT_CONFIG["WAIT_TIMEOUT"], in seconds
WAIT_TIMEOUT == 60
\* milliseconds per second: timeout * 1000 of wait_for_element
MS_PER_S == 1000
\* hexdigest()[:6]: the length of the prompt hash
HASH_LEN == 6
\* DEFAULT_CONFIG["RETRY_DELAY"], with_retry's retry_delay in seconds
RETRY_DELAY == 2
\* time.sleep(2) of wait_for_image_generation
POLL_SLEEP == 2
\* len(error_selectors) of check_for_errors
NUM_ERROR_SELECTORS == 6

VARIABLES
    max_retries,    \* with_retry's max_retries
    \* ---- SpecRetry: one call of a decorated function
    t_pc,           \* position in wrapper: "loop", "call", "after", "done"
    t,              \* wrapper's frame: attempts, last_error, calls
    t_result,       \* what the wrapper call produced
    t_events,       \* log records and sleeps of the wrapper, in order
    t_logger,       \* whether a logger was passed
    \* ---- Spec: one run of main
    pc,             \* the statement main (or the helper it is in) is at
    alarm,          \* SIGALRM: "unset", "armed", "fired"
    swallowed,      \* the SystemExit of timeout_handler was caught
    prompt_file,    \* prompt.txt
    session_file,   \* session.json
    prompt,         \* main's prompt
    hist,           \* main's steps, in order
    results,        \* the calls of log_session_result, in order
    exit_status,    \* the process's exit status, once pc = "exited"
    cfe_caller,     \* who called check_for_errors
    cfe_i,          \* check_for_errors: index of the selector
    elapsed,        \* wait_for_image_generation: time.time() - start_time
    polls,          \* wait_for_image_generation: what the polls observed
    wg_exc,         \* wait_for_image_generation: the page query of the
                    \* current poll that raised last, and whether a line was
                    \* logged for it
    dl,             \* download_image's wrapper frame
    wfe,            \* wait_for_element's wrapper frame
    steps,          \* steps of the current download_image attempt
    clicks,         \* clicks on the Download button
    content,        \* image_page.content()
    file,           \* the file at image_path
    \* ---- SpecWait: one call of wait_for_element
    w_pc,           \* position in wait_for_element's wrapper
    w_args,         \* the arguments of the call
    w,              \* the wrapper's frame
    w_calls,        \* the calls of page.wait_for_selector, in order
    w_result,       \* what the call produced
    \* ---- SpecLog: one call of log_session_result
    l_pc,           \* position in log_session_result
    l_args,         \* the arguments of the call
    l_lines,        \* the lines logged so far
    \* ---- SpecName: calls of generate_image_filename
    f_pc,           \* position in generate_image_filename
    f_args,         \* the arguments of the current call
    f_fs,           \* the directories that exist
    f_out,          \* the calls that returned: arguments, makedirs, path
    \* ---- SpecCookies: the cookie loop of apply_session_state
    k_pc,           \* position in apply_session_state
    k_cookies,      \* session_data["cookies"]
    k_processed,    \* processed_cookies
    k_added         \* the cookies given to context.add_cookies

tvars == <<t_pc, t, t_result, t_events, t_logger>>
envvars == <<prompt_file, session_file>>
cfevars == <<cfe_caller, cfe_i>>
wgvars == <<elapsed, polls, wg_exc>>
dvars == <<dl, wfe, steps, clicks, content, file>>
mvars == <<pc, alarm, swallowed, prompt, hist, results, exit_status>>
wvars == <<w_pc, w_args, w, w_calls, w_result>>
lvars == <<l_pc, l_args, l_lines>>
fvars == <<f_pc, f_args, f_fs, f_out>>
kvars == <<k_pc, k_cookies, k_processed, k_added>>
helpervars == <<wvars, lvars, fvars, kvars>>
corevars == <<max_retries, tvars, envvars, cfevars, wgvars, dvars, mvars>>
vars == <<corevars, helpervars>>

\* what a run of main leaves alone: the configuration, the files it reads,
\* and the variables of SpecRetry
Static == UNCHANGED <<max_retries, tvars, envvars, helpervars>>

\* what a call of the decorated function of SpecRetry leaves alone
RetryStatic ==
    UNCHANGED <<max_retries, envvars, cfevars, wgvars, dvars, mvars, helpervars>>

\* Python's None, among values that are strings of characters
None == <<"None">>
\* prompt.txt does not exist / cannot be read (open or decoding raises)
Missing == <<"MISSING">>
Unreadable == <<"UNREADABLE">>

(***************************************************************************)
(* Exceptions and results.                                                 *)
(***************************************************************************)
\* last_error = None
NoError == [msg |-> "None", call |-> 0]

\* the exception raised by the call-th call, with its text
Exc(m, c) == [msg |-> m, call |-> c]

NoResult == [kind |-> "none", val |-> "None", err |-> NoError]
Returned(v) == [kind |-> "return", val |-> v, err |-> NoError]
Raised(e) == [kind |-> "raise", val |-> "None", err |-> e]

(***************************************************************************)
(* with_retry (sora_utils.py 128-183).                                     *)
(***************************************************************************)
NewFrame == [attempts |-> 0, last_error |-> NoError, calls |-> 0]

\* no page query of the current poll has raised
NoExc == [query |-> "none", logged |-> FALSE]
\* a page query raised an Exception; logged: a log line was written
PageExc(q, logged) == [query |-> q, logged |-> logged]

\* the variables of SpecWait while wait_for_element is not under test
WaitIdle ==
    /\ w_pc = "idle"
    /\ w_args = [selector |-> "none", timeout_given |-> FALSE, timeout |-> 0,
                 state |-> "default"]
    /\ w = NewFrame /\ w_calls = <<>> /\ w_result = NoResult

\* the variables of the specifications of single helpers, while idle
\* the variables of SpecLog while log_session_result is not under test
LogIdle ==
    /\ l_pc = "idle"
    /\ l_args = [prompt |-> None, status |-> "None", file_path |-> None,
                 error |-> None, elapsed_given |-> FALSE, elapsed_time |-> 0]
    /\ l_lines = <<>>

\* the variables of SpecName while generate_image_filename is not under test
NameIdle ==
    /\ f_pc = "idle"
    /\ f_args = [prompt |-> "None", image_dir |-> "None", created |-> FALSE]
    /\ f_fs = {}
    /\ f_out = <<>>

\* the variables of SpecCookies while apply_session_state is not under test
CookiesIdle ==
    /\ k_pc = "idle"
    /\ k_cookies = <<>> /\ k_processed = <<>> /\ k_added = <<>>

HelpersIdle == WaitIdle /\ LogIdle /\ NameIdle /\ CookiesIdle

\* while attempts < max_retries
wrapper_loop_test(fr) == fr.attempts < max_retries

\* return func(*args, **kwargs): one more call of func
wrapper_call(fr) == [fr EXCEPT !.calls = @ + 1]

\* mutant: last_error keeps the first exception
wrapper_except_keeps_first(fr, e) ==
    [fr EXCEPT !.attempts = @ + 1,
               !.last_error = IF @ = NoError THEN e ELSE @]

\* except Exception as e: attempts += 1; last_error = e
wrapper_except(fr, e) == [fr EXCEPT !.attempts = @ + 1, !.last_error = e]

\* mutant: the pause is made after every failed attempt
wrapper_sleeps_always(fr) == TRUE

\* if attempts < max_retries: ... time.sleep(retry_delay)
wrapper_sleeps(fr) == fr.attempts < max_retries

\* if last_error: raise last_error; return False
wrapper_after_loop(fr) ==
    IF fr.last_error # NoError THEN Raised(fr.last_error) ELSE Returned("False")

\* mutant: the warning is logged before attempts is incremented
wrapper_except_events_early(fr, logger) ==
    (IF logger
     THEN <<[ev |-> "warning", n |-> fr.attempts - 1, msg |-> fr.last_error.msg]>>
     ELSE <<>>)
    \o (IF wrapper_sleeps(fr)
        THEN (IF logger THEN <<[ev |-> "info", n |-> RETRY_DELAY, msg |-> "Retrying"]>>
              ELSE <<>>)
             \o <<[ev |-> "sleep", n |-> RETRY_DELAY, msg |-> "retry_delay"]>>
        ELSE <<>>)

\* the records the except branch logs and its sleep, for the frame after
\* wrapper_except (lines 166-172): the warning "Attempt n/N failed ...: msg",
\* then "Retrying in retry_delay seconds..." and time.sleep(retry_delay)
wrapper_except_events(fr, logger) ==
    (IF logger
     THEN <<[ev |-> "warning", n |-> fr.attempts, msg |-> fr.last_error.msg]>>
     ELSE <<>>)
    \o (IF wrapper_sleeps(fr)
        THEN (IF logger THEN <<[ev |-> "info", n |-> RETRY_DELAY, msg |-> "Retrying"]>>
              ELSE <<>>)
             \o <<[ev |-> "sleep", n |-> RETRY_DELAY, msg |-> "retry_delay"]>>
        ELSE <<>>)

\* logger.error("All N attempts failed ...")
wrapper_after_events(logger) ==
    IF logger THEN <<[ev |-> "error", n |-> max_retries, msg |-> "All attempts failed"]>>
    ELSE <<>>

(***************************************************************************)
(* SpecRetry: decorated_func = with_retry(max_retries, retry_delay)(func), *)
(* called once (TestRetryDecorator, sora_utils.py 605-655).                *)
(***************************************************************************)
\* the texts of the exceptions func raises
FuncErrors == {"First failure", "Second failure"}
\* the values func returns
FuncValues == {"Success", "False"}

\* while attempts < max_retries (line 159)
wrapper_loop ==
    /\ t_pc = "loop"
    /\ RetryStatic
    /\ t_pc' = IF wrapper_loop_test(t) THEN "call" ELSE "after"
    /\ UNCHANGED <<t, t_result, t_events, t_logger>>

\* mutant: func's value is dropped and True returned
wrapper_return_true(v) ==
    /\ t_pc = "call"
    /\ RetryStatic
    /\ t' = wrapper_call(t)
    /\ t_events' = Append(t_events, [ev |-> "call", n |-> t.calls + 1, msg |-> v])
    /\ t_result' = Returned("True")
    /\ t_pc' = "done"
    /\ UNCHANGED t_logger

\* return func(*args, **kwargs), func returning v (line 161)
wrapper_return(v) ==
    /\ t_pc = "call"
    /\ RetryStatic
    /\ t' = wrapper_call(t)
    /\ t_events' = Append(t_events, [ev |-> "call", n |-> t.calls + 1, msg |-> v])
    /\ t_result' = Returned(v)
    /\ t_pc' = "done"
    /\ UNCHANGED t_logger

\* func raising an exception with text m (lines 161-172)
wrapper_raise(m) ==
    /\ t_pc = "call"
    /\ RetryStatic
    /\ LET e == Exc(m, t.calls + 1)
           fr == wrapper_except(wrapper_call(t), e)
       IN /\ t' = fr
          /\ t_events' = Append(t_events, [ev |-> "call", n |-> t.calls + 1, msg |-> m])
                         \o wrapper_except_events(fr, t_logger)
    /\ t_pc' = "loop"
    /\ UNCHANGED <<t_result, t_logger>>

\* after the loop (lines 174-180)
wrapper_exhausted ==
    /\ t_pc = "after"
    /\ RetryStatic
    /\ t_events' = t_events \o wrapper_after_events(t_logger)
    /\ t_result' = wrapper_after_loop(t)
    /\ t_pc' = "done"
    /\ UNCHANGED <<t, t_logger>>

\* the variables of main while only the decorated function runs
MainIdle ==
    /\ pc = "idle" /\ alarm = "unset" /\ swallowed = FALSE
    /\ prompt_file = Missing /\ session_file = "missing" /\ prompt = None
    /\ hist = <<>> /\ results = <<>> /\ exit_status = 0
    /\ cfe_caller = "none" /\ cfe_i = 0
    /\ elapsed = 0 /\ polls = <<>> /\ wg_exc = NoExc
    /\ dl = NewFrame /\ wfe = NewFrame /\ steps = <<>> /\ clicks = 0
    /\ content = "none" /\ file = "none"

InitRetry ==
    /\ max_retries \in 0..MaxRetries
    /\ t_pc = "loop" /\ t = NewFrame /\ t_result = NoResult /\ t_events = <<>>
    /\ t_logger \in BOOLEAN
    /\ MainIdle
    /\ HelpersIdle

NextRetry ==
    \/ wrapper_loop
    \/ \E v \in FuncValues : wrapper_return(v)
    \/ \E m \in FuncErrors : wrapper_raise(m)
    \/ wrapper_exhausted

SpecRetry == InitRetry /\ [][NextRetry]_vars

(***************************************************************************)
(* Claims about with_retry.                                                *)
(***************************************************************************)
\* C1: with max_retries = N >= 1, when the wrapper is done and every call of
\* func raised, func was called exactly N times and the wrapper raised the
\* exception of the N-th call (its call index is N and its text is the text
\* the N-th call raised), not a return value and not an earlier exception.
C1_AllFailRaisesLast ==
    (t_pc = "done" /\ max_retries >= 1 /\ t.attempts = t.calls)
        => /\ t.calls = max_retries
           /\ t_result.kind = "raise"
           /\ t_result.err.call = max_retries
           /\ \E i \in 1..Len(t_events) :
                 /\ t_events[i].ev = "call" /\ t_events[i].n = max_retries
                 /\ t_result.err.msg = t_events[i].msg

C1_Witness ==
    /\ t_pc = "done" /\ max_retries = 3 /\ t.calls = 3
    /\ t_result = Raised(Exc("Second failure", 3))

\* C2: with N >= 1, when the wrapper is done and the last call of func
\* returned (the first k-1 calls raised, the k-th returned), the wrapper
\* returned the k-th call's value, k <= N, func was called exactly k times
\* and the k-th call is the last thing that happened.
C2_ReturnsFirstSuccess ==
    (t_pc = "done" /\ max_retries >= 1 /\ t.calls > t.attempts)
        => /\ t_result.kind = "return"
           /\ t.calls = t.attempts + 1
           /\ t.calls <= max_retries
           /\ t_events[Len(t_events)].ev = "call"
           /\ t_events[Len(t_events)].n = t.calls
           /\ t_result.val = t_events[Len(t_events)].msg
           /\ Cardinality({i \in 1..Len(t_events) : t_events[i].ev = "call"}) = t.calls

C2_Witness ==
    /\ t_pc = "done" /\ max_retries = 3 /\ t.calls = 3 /\ t.attempts = 2
    /\ t_result = Returned("Success")

\* the positions of t_events that hold an event of kind k
EventsOf(k) == {i \in 1..Len(t_events) : t_events[i].ev = k}

\* how many events of kind k come before position i
CountBefore(k, i) == Cardinality({j \in EventsOf(k) : j < i})

\* C11: every pause of the wrapper lasts retry_delay; the k-th pause comes
\* after the k-th call of func, which raised and was not the N-th, and
\* before the (k+1)-th call: none before the first call, none after a call
\* that returned, none after the N-th failed call, and never two between
\* two calls. So after a failed attempts the pauses are min(a, N-1), and a
\* run whose N attempts all failed has made exactly N-1 pauses.
C11_Pauses ==
    /\ \A i \in EventsOf("sleep") :
         /\ t_events[i].n = RETRY_DELAY
         /\ CountBefore("call", i) = CountBefore("sleep", i) + 1
         /\ CountBefore("call", i) < max_retries
         /\ \E j \in EventsOf("call") :
               /\ j < i
               /\ t_events[j].n = CountBefore("call", i)
               /\ t_events[j].msg \in FuncErrors
    /\ \A j \in EventsOf("call") :
         CountBefore("sleep", j) = t_events[j].n - 1
    /\ max_retries >= 1 =>
         Cardinality(EventsOf("sleep")) =
            IF t.attempts < max_retries THEN t.attempts ELSE max_retries - 1
    /\ (t_pc = "done" /\ max_retries >= 1 /\ t.attempts = t.calls) =>
         Cardinality(EventsOf("sleep")) = max_retries - 1

C11_Witness ==
    /\ t_pc = "done" /\ max_retries = 3
    /\ t.attempts = 3 /\ t.calls = 3
    /\ Cardinality(EventsOf("sleep")) = 2

\* C12: with a logger, the i-th failed attempt logs one warning numbered i
\* (of max_retries) carrying the text of the exception the i-th call raised,
\* so the warnings come numbered 1, 2, ... in order; the error "All N
\* attempts failed" is logged only when all N attempts failed, and is
\* logged whenever the wrapper ended with no call having returned; it is
\* never in the log of a run in which a call returned. Without a logger
\* nothing is logged.
C12_Log ==
    /\ t_logger =>
         /\ Cardinality(EventsOf("warning")) = t.attempts
         /\ \A i \in EventsOf("warning") :
              /\ t_events[i].n = CountBefore("warning", i) + 1
              /\ t_events[i].n <= max_retries
              /\ t_events[i - 1] =
                    [ev |-> "call", n |-> t_events[i].n, msg |-> t_events[i].msg]
              /\ t_events[i].msg \in FuncErrors
         /\ \A i \in EventsOf("error") :
              /\ i = Len(t_events)
              /\ t_events[i].n = max_retries
              /\ t.attempts = max_retries /\ t.calls = max_retries
              /\ t_result.kind # "return" \/ max_retries = 0
         /\ (t_pc = "done" /\ t.attempts = t.calls) =>
              Cardinality(EventsOf("error")) = 1
         /\ (t_pc = "done" /\ t.calls > t.attempts) => EventsOf("error") = {}
    /\ ~t_logger =>
         EventsOf("warning") \cup EventsOf("info") \cup EventsOf("error") = {}

C12_Witness ==
    /\ t_pc = "done" /\ t_logger /\ max_retries = 3
    /\ Cardinality(EventsOf("warning")) = 3
    /\ t_events[Len(t_events)].ev = "error"

(***************************************************************************)
(* Spec: one run of main (generate_image_from_prompt.py 84-434).           *)
(***************************************************************************)
PromptChars == {" ", "a"}
Whitespace == {" "}

\* the contents prompt.txt can have
PromptTexts == UNION {[1..n -> PromptChars] : n \in 0..MaxPromptLen}
PromptFiles == PromptTexts \cup {Missing, Unreadable}

RECURSIVE lstrip(_)
lstrip(s) == IF s # <<>> /\ Head(s) \in Whitespace THEN lstrip(Tail(s)) ELSE s

RECURSIVE rstrip(_)
rstrip(s) ==
    IF s # <<>> /\ s[Len(s)] \in Whitespace
    THEN rstrip(SubSeq(s, 1, Len(s) - 1)) ELSE s

\* str.strip()
strip(s) == rstrip(lstrip(s))

\* Python's truth value of a string or None
Truthy(v) == v # None /\ v # <<>>

\* mutant: the content is returned without strip() and without the
\* emptiness test
read_prompt_raw(f) ==
    IF f = Missing \/ f = Unreadable THEN None ELSE f

\* read_prompt (lines 29-56)
read_prompt(f) ==
    IF f = Missing THEN None
    ELSE IF f = Unreadable THEN None
    ELSE IF ~Truthy(strip(f)) THEN None
    ELSE strip(f)

\* the states of session.json and what load_session returns for each
\* (lines 58-82): None, {} or a non-empty dict
SessionFiles == {"missing", "invalid", "empty", "ok"}
load_session(f) == IF f = "ok" THEN "dict" ELSE IF f = "empty" THEN "{}" ELSE "None"

NA == <<"N/A">>

Step(name, r) == [step |-> name, r |-> r]

\* log_session_result(logger, prompt, status, error=...) (sora_utils.py 411-436)
log_session_result(p, status, error) ==
    Append(results, [status |-> status, prompt |-> p, error |-> error])

\* a failed step of main: log, log_session_result(FAILURE), then
\* browser.close(); sys.exit(1)
main_fail(step, r, error) ==
    /\ hist' = hist \o <<Step(step, r), Step("log_session_result", "FAILURE")>>
    /\ results' = log_session_result(prompt, "FAILURE", error)
    /\ pc' = "m_close_exit"
    /\ UNCHANGED <<prompt, exit_status>>

\* an exception raised by a step inside main's try (line 426)
main_raise(step) ==
    /\ hist' = Append(hist, Step(step, "raise"))
    /\ pc' = "m_except"
    /\ UNCHANGED <<prompt, results, exit_status>>

\* a step of main that went well
main_next(step, r, next) ==
    /\ hist' = Append(hist, Step(step, r))
    /\ pc' = next
    /\ UNCHANGED <<prompt, results, exit_status>>

\* what a call on the page does: a truthy result, a falsy one, an exception
Outcomes == {"True", "False", "raise"}

\* what the body of a try with a bare except does: it completes, it raises
\* an Exception, or the alarm goes off in it and timeout_handler's
\* sys.exit(1) raises SystemExit there
BareOutcomes == {"ok", "Exception", "SystemExit"}

\* the alarm does not go off in this step
NoAlarm == UNCHANGED <<alarm, swallowed>>

\* a bare except: catches the SystemExit of timeout_handler like anything else
BareExcept(o) ==
    IF o = "SystemExit"
    THEN alarm = "armed" /\ alarm' = "fired" /\ swallowed' = TRUE
    ELSE NoAlarm

\* lines 85-93: setup_logging, setup_global_timeout (sora_utils.py 521-544)
main_setup ==
    /\ pc = "m_setup"
    /\ Static
    /\ alarm' = "armed"
    /\ pc' = "m_read_prompt"
    /\ UNCHANGED <<swallowed, prompt, hist, results, exit_status>>
    /\ UNCHANGED <<cfevars, wgvars, dvars>>

\* lines 95-106
main_read_prompt ==
    /\ pc = "m_read_prompt"
    /\ Static
    /\ prompt' = read_prompt(prompt_file)
    /\ IF ~Truthy(prompt')
       THEN /\ hist' = hist \o <<Step("read_prompt", "None"),
                                 Step("log_session_result", "FAILURE")>>
            /\ results' = log_session_result(NA, "FAILURE", "Missing or empty prompt.txt file")
            /\ pc' = "exited"
            /\ exit_status' = 1
       ELSE /\ hist' = Append(hist, Step("read_prompt", "str"))
            /\ pc' = "m_load_session"
            /\ UNCHANGED <<results, exit_status>>
    /\ UNCHANGED <<alarm, swallowed>>
    /\ UNCHANGED <<cfevars, wgvars, dvars>>

\* lines 108-121
main_load_session ==
    /\ pc = "m_load_session"
    /\ Static
    /\ IF load_session(session_file) # "dict"
       THEN /\ hist' = hist \o <<Step("load_session", load_session(session_file)),
                                 Step("log_session_result", "FAILURE")>>
            /\ results' = log_session_result(prompt, "FAILURE", "Missing session.json file")
            /\ pc' = "exited"
            /\ exit_status' = 1
       ELSE /\ hist' = Append(hist, Step("load_session", "dict"))
            /\ pc' = "m_launch"
            /\ UNCHANGED <<results, exit_status>>
    /\ UNCHANGED <<alarm, swallowed, prompt>>
    /\ UNCHANGED <<cfevars, wgvars, dvars>>

\* lines 125-131: launch_stealth_browser
main_launch(o) ==
    /\ pc = "m_launch"
    /\ Static
    /\ o # "False"
    /\ IF o = "raise" THEN main_raise("launch_stealth_browser")
       ELSE main_next("launch_stealth_browser", "True", "m_apply_session")
    /\ NoAlarm
    /\ UNCHANGED <<cfevars, wgvars, dvars>>

\* lines 134-144: apply_session_state returns True or False
\* (stealth_launcher.py 440-530, every exception caught)
main_apply_session(o) ==
    /\ pc = "m_apply_session"
    /\ Static
    /\ o # "raise"
    /\ IF o = "False"
       THEN main_fail("apply_session_state", "False",
                      "Failed to apply session state from session.json")
       ELSE main_next("apply_session_state", "True", "m_goto")
    /\ NoAlarm
    /\ UNCHANGED <<cfevars, wgvars, dvars>>

\* lines 146-150: new_page, setup_stealth_page, page.goto
main_goto(o) ==
    /\ pc = "m_goto"
    /\ Static
    /\ o # "False"
    /\ IF o = "raise" THEN main_raise("goto")
       ELSE main_next("goto", "True", "cf_eval1")
    /\ NoAlarm
    /\ UNCHANGED <<cfevars, wgvars, dvars>>

\* handle_cloudflare_challenge (stealth_launcher.py 532-617), called at
\* line 152 of main. Line 546: is_cloudflare
cloudflare_check(o) ==
    /\ pc = "cf_eval1"
    /\ Static
    /\ CASE o = "raise" -> main_raise("handle_cloudflare_challenge")
         [] o = "False" -> main_next("handle_cloudflare_challenge", "True", "va_eval1")
         [] o = "True" -> pc' = "cf_moves" /\ UNCHANGED <<prompt, hist, results, exit_status>>
    /\ NoAlarm
    /\ UNCHANGED <<cfevars, wgvars, dvars>>

\* lines 563-588: mouse moves, waits, still_cloudflare
cloudflare_moves(o) ==
    /\ pc = "cf_moves"
    /\ Static
    /\ CASE o = "raise" -> main_raise("handle_cloudflare_challenge")
         [] o = "False" -> main_next("handle_cloudflare_challenge", "True", "va_eval1")
         [] o = "True" -> pc' = "cf_click" /\ UNCHANGED <<prompt, hist, results, exit_status>>
    /\ NoAlarm
    /\ UNCHANGED <<cfevars, wgvars, dvars>>

\* lines 594-598: try: page.click; page.wait_for_timeout  except: pass
cloudflare_click(o) ==
    /\ pc = "cf_click"
    /\ Static
    /\ BareExcept(o)
    /\ pc' = "cf_final"
    /\ UNCHANGED <<prompt, hist, results, exit_status>>
    /\ UNCHANGED <<cfevars, wgvars, dvars>>

\* lines 600-617: wait, final_check
cloudflare_final(o) ==
    /\ pc = "cf_final"
    /\ Static
    /\ CASE o = "raise" -> main_raise("handle_cloudflare_challenge")
         [] o = "False" -> main_next("handle_cloudflare_challenge", "True", "va_eval1")
         [] o = "True" -> main_fail("handle_cloudflare_challenge", "False",
                                    "Failed to bypass Cloudflare challenge")
    /\ NoAlarm
    /\ UNCHANGED <<cfevars, wgvars, dvars>>

\* verify_sora_access (stealth_launcher.py 619-682), called at line 163 of
\* main. Line 633: region_restricted
access_region(o) ==
    /\ pc = "va_eval1"
    /\ Static
    /\ CASE o = "raise" -> main_raise("verify_sora_access")
         [] o = "True" -> main_fail("verify_sora_access", "False",
                                    "Failed to access Sora website")
         [] o = "False" -> pc' = "va_eval2" /\ UNCHANGED <<prompt, hist, results, exit_status>>
    /\ NoAlarm
    /\ UNCHANGED <<cfevars, wgvars, dvars>>

\* line 643: has_interface
access_interface(o) ==
    /\ pc = "va_eval2"
    /\ Static
    /\ CASE o = "raise" -> main_raise("verify_sora_access")
         [] o = "True" -> main_next("verify_sora_access", "True", "vn_title")
         [] o = "False" -> pc' = "va_screenshot" /\ UNCHANGED <<prompt, hist, results, exit_status>>
    /\ NoAlarm
    /\ UNCHANGED <<cfevars, wgvars, dvars>>

\* lines 661-666: try: page.screenshot  except: pass
access_screenshot(o) ==
    /\ pc = "va_screenshot"
    /\ Static
    /\ BareExcept(o)
    /\ pc' = "va_html"
    /\ UNCHANGED <<prompt, hist, results, exit_status>>
    /\ UNCHANGED <<cfevars, wgvars, dvars>>

\* lines 668-677: try: page.content; write  except: pass; return False
access_html(o) ==
    /\ pc = "va_html"
    /\ Static
    /\ BareExcept(o)
    /\ main_fail("verify_sora_access", "False", "Failed to access Sora website")
    /\ UNCHANGED <<cfevars, wgvars, dvars>>

(***************************************************************************)
(* check_for_errors (sora_utils.py 217-250), called by verify_navigation,  *)
(* by main (line 363) and by wait_for_image_generation (lines 273, 285).   *)
(***************************************************************************)
\* the call: the loop starts at the first selector
check_for_errors_call(caller) ==
    /\ cfe_caller' = caller
    /\ cfe_i' = 1
    /\ pc' = "cfe_visible"

GenerationFailed == "Image generation failed or timed out"

\* return (error_found, error_message) to the caller, and what the caller
\* does with it: verify_navigation lines 576-582 and main 174-183; main
\* 364-373; wait_for_image_generation 274-276 and 286-287 and main 375-384
check_for_errors_return(found) ==
    /\ cfe_caller' = "none"
    /\ cfe_i' = 0
    /\ CASE cfe_caller = "verify_navigation" ->
              /\ IF found
                 THEN main_fail("verify_navigation", "False", "Navigation to Sora website failed")
                 ELSE main_next("verify_navigation", "True", "m_debug")
              /\ UNCHANGED <<elapsed, polls>>
         [] cfe_caller = "main" ->
              /\ IF found
                 THEN main_fail("check_for_errors", "True",
                                "Error detected immediately after clicking generate")
                 ELSE main_next("check_for_errors", "False", "wg_start")
              /\ UNCHANGED <<elapsed, polls>>
         [] cfe_caller \in {"wg_early", "wg_poll"} ->
              IF found
              THEN /\ polls' = Append(polls, "error")
                   /\ main_fail("wait_for_image_generation", "False", GenerationFailed)
                   /\ UNCHANGED elapsed
              ELSE /\ pc' = IF cfe_caller = "wg_early" THEN "wg_loop" ELSE "wg_progress"
                   /\ UNCHANGED <<elapsed, polls, prompt, hist, results, exit_status>>

\* lines 237-239, 247-250: page.is_visible(selector) of the cfe_i-th
\* selector; except Exception: pass
check_for_errors_is_visible(o) ==
    /\ pc = "cfe_visible"
    /\ Static
    /\ IF o = "True"
       THEN /\ pc' = "cfe_text"
            /\ UNCHANGED <<cfevars, elapsed, polls, prompt, hist, results, exit_status>>
       ELSE IF cfe_i < NUM_ERROR_SELECTORS
            THEN /\ cfe_i' = cfe_i + 1
                 /\ UNCHANGED <<cfe_caller, elapsed, polls, pc, prompt, hist, results, exit_status>>
            ELSE check_for_errors_return(FALSE)
    /\ wg_exc' = IF o = "raise" /\ cfe_caller = "wg_poll"
                 THEN PageExc("check_for_errors.is_visible", FALSE)
                 ELSE wg_exc
    /\ NoAlarm
    /\ UNCHANGED dvars

\* lines 240-246: try: page.text_content; return True, error_text
\* except: return True, "Error element detected"
check_for_errors_text(o) ==
    /\ pc = "cfe_text"
    /\ Static
    /\ BareExcept(o)
    /\ check_for_errors_return(TRUE)
    /\ wg_exc' = IF o = "Exception" /\ cfe_caller = "wg_poll"
                 THEN PageExc("check_for_errors.text_content", TRUE)
                 ELSE wg_exc
    /\ UNCHANGED dvars

(***************************************************************************)
(* verify_navigation (sora_utils.py 546-586), called at line 174 of main.  *)
(***************************************************************************)
\* lines 562-565 (and 584-586 for an exception)
verify_navigation_title(o) ==
    /\ pc = "vn_title"
    /\ Static
    /\ IF o = "True"
       THEN pc' = "vn_stable" /\ UNCHANGED <<prompt, hist, results, exit_status>>
       ELSE main_fail("verify_navigation", "False", "Navigation to Sora website failed")
    /\ NoAlarm
    /\ UNCHANGED <<cfevars, wgvars, dvars>>

\* lines 568-576
verify_navigation_stable(o) ==
    /\ pc = "vn_stable"
    /\ Static
    /\ o # "False"
    /\ IF o = "True"
       THEN /\ check_for_errors_call("verify_navigation")
            /\ UNCHANGED <<prompt, hist, results, exit_status>>
       ELSE /\ main_fail("verify_navigation", "False", "Navigation to Sora website failed")
            /\ UNCHANGED cfevars
    /\ NoAlarm
    /\ UNCHANGED <<wgvars, dvars>>

(***************************************************************************)
(* main, lines 185-373.                                                    *)
(***************************************************************************)
\* lines 185-202: sleep, screenshot, page.content, page.evaluate
main_debug(o) ==
    /\ pc = "m_debug"
    /\ Static
    /\ o # "False"
    /\ IF o = "raise" THEN main_raise("debug")
       ELSE main_next("debug", "True", "m_has_input1")
    /\ NoAlarm
    /\ UNCHANGED <<cfevars, wgvars, dvars>>

InputNotFound == "Could not find any input elements using JavaScript"
\* the argument of time.sleep at line 221, as the step's result
INPUT_WAIT == "15"

\* lines 204-218: has_input
main_has_input1(o) ==
    /\ pc = "m_has_input1"
    /\ Static
    /\ CASE o = "raise" -> main_raise("has_input")
         [] o = "True" -> main_next("has_input", "True", "m_enter_prompt")
         [] o = "False" -> main_next("has_input", "False", "m_wait_input")
    /\ NoAlarm
    /\ UNCHANGED <<cfevars, wgvars, dvars>>

\* lines 219-221: time.sleep(15)
main_wait_input ==
    /\ pc = "m_wait_input"
    /\ Static
    /\ main_next("time.sleep", INPUT_WAIT, "m_has_input2")
    /\ NoAlarm
    /\ UNCHANGED <<cfevars, wgvars, dvars>>

\* mutant: the result of the second check is not tested
main_has_input2_unchecked(o) ==
    /\ pc = "m_has_input2"
    /\ Static
    /\ CASE o = "raise" -> main_raise("has_input")
         [] o \in {"True", "False"} -> main_next("has_input", o, "m_enter_prompt")
    /\ NoAlarm
    /\ UNCHANGED <<cfevars, wgvars, dvars>>

\* lines 223-244: has_input again
main_has_input2(o) ==
    /\ pc = "m_has_input2"
    /\ Static
    /\ CASE o = "raise" -> main_raise("has_input")
         [] o = "True" -> main_next("has_input", "True", "m_enter_prompt")
         [] o = "False" -> main_fail("has_input", "False", InputNotFound)
    /\ NoAlarm
    /\ UNCHANGED <<cfevars, wgvars, dvars>>

\* mutant: input_success is not tested
main_enter_prompt_unchecked(o) ==
    /\ pc = "m_enter_prompt"
    /\ Static
    /\ CASE o = "raise" -> main_raise("enter_prompt")
         [] o \in {"True", "False"} -> main_next("enter_prompt", o, "m_submit")
    /\ NoAlarm
    /\ UNCHANGED <<cfevars, wgvars, dvars>>

\* lines 246-294: input_success
main_enter_prompt(o) ==
    /\ pc = "m_enter_prompt"
    /\ Static
    /\ CASE o = "raise" -> main_raise("enter_prompt")
         [] o = "True" -> main_next("enter_prompt", "True", "m_submit")
         [] o = "False" -> main_fail("enter_prompt", "False", "Failed to enter prompt text")
    /\ NoAlarm
    /\ UNCHANGED <<cfevars, wgvars, dvars>>

\* lines 296-360: button_clicked
main_submit(o) ==
    /\ pc = "m_submit"
    /\ Static
    /\ CASE o = "raise" -> main_raise("submit")
         [] o = "True" -> main_next("submit", "True", "m_check_errors")
         [] o = "False" -> main_fail("submit", "False",
                                     "Could not find or click the generate button")
    /\ NoAlarm
    /\ UNCHANGED <<cfevars, wgvars, dvars>>

\* lines 362-363: time.sleep(1); check_for_errors(page, logger)
main_check_errors ==
    /\ pc = "m_check_errors"
    /\ Static
    /\ check_for_errors_call("main")
    /\ NoAlarm
    /\ UNCHANGED <<prompt, hist, results, exit_status, wgvars, dvars>>

(***************************************************************************)
(* wait_for_image_generation (sora_utils.py 252-304), called at line 375   *)
(* of main with the default timeout.                                       *)
(***************************************************************************)
\* lines 264-273: start_time; time.sleep(2); check_for_errors
wait_for_image_generation_start ==
    /\ pc = "wg_start"
    /\ Static
    /\ hist' = Append(hist, Step("wait_for_image_generation", "call"))
    /\ elapsed' = POLL_SLEEP
    /\ polls' = <<>>
    /\ wg_exc' = NoExc
    /\ check_for_errors_call("wg_early")
    /\ NoAlarm
    /\ UNCHANGED <<prompt, results, exit_status, dvars>>

\* line 278: while time.time() - start_time < timeout; lines 303-304
wait_for_image_generation_loop ==
    /\ pc = "wg_loop"
    /\ Static
    /\ IF elapsed < GenTimeout
       THEN pc' = "wg_download" /\ UNCHANGED <<prompt, hist, results, exit_status>>
       ELSE main_fail("wait_for_image_generation", "False", GenerationFailed)
    /\ wg_exc' = NoExc
    /\ NoAlarm
    /\ UNCHANGED <<cfevars, elapsed, polls, dvars>>

\* mutant: the result of is_visible is not tested
wait_for_image_generation_download_any(o) ==
    /\ pc = "wg_download"
    /\ Static
    /\ CASE o = "True" ->
              /\ polls' = Append(polls, "visible")
              /\ main_next("wait_for_image_generation", "True", "dl_start")
              /\ UNCHANGED <<elapsed, cfevars, wg_exc>>
         [] o = "False" ->
              /\ polls' = Append(polls, "hidden")
              /\ main_next("wait_for_image_generation", "True", "dl_start")
              /\ UNCHANGED <<elapsed, cfevars, wg_exc>>
         [] o = "raise" ->
              /\ polls' = Append(polls, "raise")
              /\ wg_exc' = PageExc("download.is_visible", TRUE)
              /\ elapsed' = elapsed + POLL_SLEEP
              /\ pc' = "wg_loop"
              /\ UNCHANGED <<cfevars, prompt, hist, results, exit_status>>
    /\ NoAlarm
    /\ UNCHANGED dvars

\* lines 279-285: page.is_visible(download_button_selector); lines 299-301
\* when it raises
wait_for_image_generation_download(o) ==
    /\ pc = "wg_download"
    /\ Static
    /\ CASE o = "True" ->
              /\ polls' = Append(polls, "visible")
              /\ main_next("wait_for_image_generation", "True", "dl_start")
              /\ elapsed' = 0
              /\ UNCHANGED <<cfevars, wg_exc>>
         [] o = "False" ->
              /\ polls' = Append(polls, "hidden")
              /\ check_for_errors_call("wg_poll")
              /\ UNCHANGED <<elapsed, wg_exc, prompt, hist, results, exit_status>>
         [] o = "raise" ->
              /\ polls' = Append(polls, "raise")
              /\ wg_exc' = PageExc("download.is_visible", TRUE)
              /\ elapsed' = elapsed + POLL_SLEEP
              /\ pc' = "wg_loop"
              /\ UNCHANGED <<cfevars, prompt, hist, results, exit_status>>
    /\ NoAlarm
    /\ UNCHANGED dvars

\* mutant: no inner try; the Exception reaches the handler of lines 299-301
wait_for_image_generation_progress_outer(o) ==
    /\ pc = "wg_progress"
    /\ Static
    /\ BareExcept(o)
    /\ IF o = "Exception"
       THEN /\ wg_exc' = PageExc("progress", TRUE)
            /\ elapsed' = elapsed + POLL_SLEEP
            /\ pc' = "wg_loop"
       ELSE /\ pc' = "wg_sleep"
            /\ UNCHANGED <<wg_exc, elapsed>>
    /\ UNCHANGED <<prompt, hist, results, exit_status, cfevars, polls, dvars>>

\* lines 289-295: try: page.is_visible; page.text_content  except: pass
wait_for_image_generation_progress(o) ==
    /\ pc = "wg_progress"
    /\ Static
    /\ BareExcept(o)
    /\ wg_exc' = IF o = "Exception" THEN PageExc("progress", FALSE) ELSE wg_exc
    /\ pc' = "wg_sleep"
    /\ UNCHANGED <<prompt, hist, results, exit_status, cfevars, elapsed, polls, dvars>>

\* line 297: time.sleep(2)
wait_for_image_generation_sleep ==
    /\ pc = "wg_sleep"
    /\ Static
    /\ elapsed' = elapsed + POLL_SLEEP
    /\ pc' = "wg_loop"
    /\ NoAlarm
    /\ UNCHANGED <<polls, wg_exc, prompt, hist, results, exit_status, cfevars, dvars>>

(***************************************************************************)
(* The ends of main, and the alarm.                                        *)
(***************************************************************************)
\* browser.close(); sys.exit(1) after a FAILURE result (lines 143-144, ...,
\* 405-406): SystemExit is no Exception, line 426 does not catch it
main_close_exit(o) ==
    /\ pc = "m_close_exit"
    /\ Static
    /\ o # "False"
    /\ IF o = "raise"
       THEN main_raise("browser.close")
       ELSE /\ hist' = Append(hist, Step("browser.close", "True"))
            /\ pc' = "exited"
            /\ exit_status' = 1
            /\ UNCHANGED <<prompt, results>>
    /\ NoAlarm
    /\ UNCHANGED <<cfevars, wgvars, dvars>>

\* lines 426-434: except Exception as e: log_session_result(FAILURE); sys.exit(1)
main_except ==
    /\ pc = "m_except"
    /\ Static
    /\ hist' = Append(hist, Step("log_session_result", "FAILURE"))
    /\ results' = log_session_result(prompt, "FAILURE", "Unexpected error")
    /\ pc' = "exited"
    /\ exit_status' = 1
    /\ NoAlarm
    /\ UNCHANGED <<prompt, cfevars, wgvars, dvars>>

\* lines 408-423: log_session_result(SUCCESS)
main_success ==
    /\ pc = "m_success"
    /\ Static
    /\ hist' = Append(hist, Step("log_session_result", "SUCCESS"))
    /\ results' = log_session_result(prompt, "SUCCESS", "None")
    /\ pc' = "m_close_ok"
    /\ NoAlarm
    /\ UNCHANGED <<prompt, exit_status, cfevars, wgvars, dvars>>

\* line 424: browser.close(), then main returns
main_close_ok(o) ==
    /\ pc = "m_close_ok"
    /\ Static
    /\ o # "False"
    /\ IF o = "raise"
       THEN main_raise("browser.close")
       ELSE /\ hist' = Append(hist, Step("browser.close", "True"))
            /\ pc' = "exited"
            /\ exit_status' = 0
            /\ UNCHANGED <<prompt, results>>
    /\ NoAlarm
    /\ UNCHANGED <<cfevars, wgvars, dvars>>

\* the statements whose SystemExit a bare except catches: check_for_errors
\* 240-246, wait_for_image_generation 290-295, stealth_launcher.py 594-598,
\* 661-666, 668-675
BareExceptPcs == {"cfe_text", "wg_progress", "cf_click", "va_screenshot", "va_html"}

\* timeout_handler (sora_utils.py 532-538) run by SIGALRM while main is at a
\* statement no bare except encloses: sys.exit(1) ends the process
timeout_handler ==
    /\ alarm = "armed"
    /\ Static
    /\ pc \notin {"idle", "m_setup", "exited"} \cup BareExceptPcs
    /\ alarm' = "fired"
    /\ pc' = "exited"
    /\ exit_status' = 1
    /\ UNCHANGED <<swallowed, prompt, hist, results, cfevars, wgvars, dvars>>

(***************************************************************************)
(* download_image (sora_utils.py 354-409) under @with_retry(), called at   *)
(* line 387 of main, and wait_for_element (185-215) under @with_retry(),   *)
(* called at line 374.                                                     *)
(***************************************************************************)
\* what image_page.content() holds: an <img> with base64 of a PNG, of
\* another format, of no bytes, with text b64decode rejects, or no such <img>
Contents == {"png", "jpeg", "empty", "badb64", "nomatch"}

\* re.search(...) (line 387)
image_data_match(c) == c # "nomatch"

\* base64.b64decode(image_data) raises (line 394)
b64decode_raises(c) == c = "badb64"

\* validate_image (lines 306-352): the file exists, is not empty, imghdr
\* says png and PIL verifies it
validate_image(f) == f = "png"

DownloadSteps ==
    <<"click", "wait_for_element", "get_attribute", "new_page", "goto",
      "content", "extract", "write", "close", "validate">>

\* main line 387 calls the wrapper (lines 146-157)
download_image_call ==
    /\ pc = "dl_start"
    /\ Static
    /\ hist' = Append(hist, Step("download_image", "call"))
    /\ dl' = NewFrame
    /\ pc' = "dl_loop"
    /\ polls' = <<>>
    /\ NoAlarm
    /\ UNCHANGED <<wfe, steps, clicks, content, file>>
    /\ UNCHANGED <<prompt, results, exit_status, cfevars, elapsed, wg_exc>>

\* wrapper line 159-161: the loop test, and the call of download_image
download_image_loop ==
    /\ pc = "dl_loop"
    /\ Static
    /\ IF wrapper_loop_test(dl)
       THEN /\ dl' = wrapper_call(dl)
            /\ steps' = <<>>
            /\ content' = "none"
            /\ pc' = "dl_click"
       ELSE /\ pc' = "dl_after"
            /\ UNCHANGED <<dl, steps, content>>
    /\ NoAlarm
    /\ UNCHANGED <<wfe, clicks, file>>
    /\ UNCHANGED <<prompt, hist, results, exit_status, cfevars, wgvars>>

\* mutant: the retry resumes at the step after the click
download_image_raise_resume(m) ==
    /\ dl' = wrapper_call(wrapper_except(dl, Exc(m, dl.calls)))
    /\ pc' = IF wrapper_loop_test(wrapper_except(dl, Exc(m, dl.calls)))
             THEN "dl_wait" ELSE "dl_after"

\* an exception in download_image: lines 407-409 re-raise it, the wrapper's
\* lines 162-172 count the attempt, keep the exception and sleep
download_image_raise(m) ==
    /\ dl' = wrapper_except(dl, Exc(m, dl.calls))
    /\ pc' = "dl_loop"

\* mutant: the click comes after the wait for the image element
download_image_click_late(o) ==
    /\ pc = "dl_click"
    /\ Static
    /\ o # "False"
    /\ steps' = <<"wait_for_element", "click">>
    /\ clicks' = clicks + 1
    /\ IF o = "raise" THEN download_image_raise("click")
       ELSE pc' = "dl_get_src" /\ UNCHANGED dl
    /\ NoAlarm
    /\ UNCHANGED <<wfe, content, file>>
    /\ UNCHANGED <<prompt, hist, results, exit_status, cfevars, wgvars>>

\* lines 368-371: page.click(download_button_selector)
download_image_click(o) ==
    /\ pc = "dl_click"
    /\ Static
    /\ o # "False"
    /\ steps' = Append(steps, "click")
    /\ clicks' = clicks + 1
    /\ IF o = "raise" THEN download_image_raise("click")
       ELSE pc' = "dl_wait" /\ UNCHANGED dl
    /\ NoAlarm
    /\ UNCHANGED <<wfe, content, file>>
    /\ UNCHANGED <<prompt, hist, results, exit_status, cfevars, wgvars>>

\* line 374: wait_for_element(page, image_selector, logger): its wrapper starts
download_image_wait ==
    /\ pc = "dl_wait"
    /\ Static
    /\ steps' = Append(steps, "wait_for_element")
    /\ wfe' = NewFrame
    /\ pc' = "wfe_loop"
    /\ NoAlarm
    /\ UNCHANGED <<dl, clicks, content, file>>
    /\ UNCHANGED <<prompt, hist, results, exit_status, cfevars, wgvars>>

\* wait_for_element's wrapper: lines 159-161, and 174-180 after the loop;
\* download_image lines 374-376 for what it gets back
wait_for_element_loop ==
    /\ pc = "wfe_loop"
    /\ Static
    /\ IF wrapper_loop_test(wfe)
       THEN /\ wfe' = wrapper_call(wfe)
            /\ pc' = "wfe_call"
            /\ UNCHANGED dl
       ELSE /\ UNCHANGED wfe
            /\ IF wrapper_after_loop(wfe).kind = "raise"
               THEN download_image_raise(wrapper_after_loop(wfe).err.msg)
               ELSE download_image_raise("Could not find the full-size image element")
    /\ NoAlarm
    /\ UNCHANGED <<steps, clicks, content, file>>
    /\ UNCHANGED <<prompt, hist, results, exit_status, cfevars, wgvars>>

\* wait_for_element lines 201-215: page.wait_for_selector
wait_for_element_call(o) ==
    /\ pc = "wfe_call"
    /\ Static
    /\ o # "False"
    /\ IF o = "True"
       THEN pc' = "dl_get_src" /\ UNCHANGED wfe
       ELSE /\ wfe' = wrapper_except(wfe, Exc("wait_for_selector", wfe.calls))
            /\ pc' = "wfe_loop"
    /\ NoAlarm
    /\ UNCHANGED <<dl, steps, clicks, content, file>>
    /\ UNCHANGED <<prompt, hist, results, exit_status, cfevars, wgvars>>

\* lines 378-381: image_src = page.get_attribute(image_selector, "src")
download_image_get_src(o) ==
    /\ pc = "dl_get_src"
    /\ Static
    /\ steps' = Append(steps, "get_attribute")
    /\ CASE o = "True" -> pc' = "dl_new_page" /\ UNCHANGED dl
         [] o = "False" -> download_image_raise("Could not get image source URL")
         [] o = "raise" -> download_image_raise("get_attribute")
    /\ wfe' = NewFrame
    /\ NoAlarm
    /\ UNCHANGED <<clicks, content, file>>
    /\ UNCHANGED <<prompt, hist, results, exit_status, cfevars, wgvars>>

\* line 383: image_page = page.context.new_page()
download_image_new_page(o) ==
    /\ pc = "dl_new_page"
    /\ Static
    /\ o # "False"
    /\ steps' = Append(steps, "new_page")
    /\ IF o = "raise" THEN download_image_raise("new_page")
       ELSE pc' = "dl_goto" /\ UNCHANGED dl
    /\ NoAlarm
    /\ UNCHANGED <<wfe, clicks, content, file>>
    /\ UNCHANGED <<prompt, hist, results, exit_status, cfevars, wgvars>>

\* line 384: image_page.goto(image_src)
download_image_goto(o) ==
    /\ pc = "dl_goto"
    /\ Static
    /\ o # "False"
    /\ steps' = Append(steps, "goto")
    /\ IF o = "raise" THEN download_image_raise("goto")
       ELSE pc' = "dl_content" /\ UNCHANGED dl
    /\ NoAlarm
    /\ UNCHANGED <<wfe, clicks, content, file>>
    /\ UNCHANGED <<prompt, hist, results, exit_status, cfevars, wgvars>>

\* line 385: image_content = image_page.content()
download_image_content(c) ==
    /\ pc = "dl_content"
    /\ Static
    /\ steps' = Append(steps, "content")
    /\ IF c = "raise"
       THEN download_image_raise("content") /\ UNCHANGED content
       ELSE pc' = "dl_extract" /\ content' = c /\ UNCHANGED dl
    /\ NoAlarm
    /\ UNCHANGED <<wfe, clicks, file>>
    /\ UNCHANGED <<prompt, hist, results, exit_status, cfevars, wgvars>>

\* lines 387-394: re.search, base64.b64decode
download_image_extract ==
    /\ pc = "dl_extract"
    /\ Static
    /\ IF ~image_data_match(content)
       THEN /\ steps' = steps \o <<"extract", "close">>
            /\ download_image_raise("Could not extract image data")
       ELSE /\ steps' = Append(steps, "extract")
            /\ IF b64decode_raises(content)
               THEN download_image_raise("b64decode")
               ELSE pc' = "dl_write" /\ UNCHANGED dl
    /\ NoAlarm
    /\ UNCHANGED <<wfe, clicks, content, file>>
    /\ UNCHANGED <<prompt, hist, results, exit_status, cfevars, wgvars>>

\* lines 396-397: with open(image_path, "wb") as f: f.write(image_bytes);
\* when it raises the file is as it was or, once opened, empty
download_image_write(o) ==
    /\ pc = "dl_write"
    /\ Static
    /\ o # "False"
    /\ steps' = Append(steps, "write")
    /\ IF o = "raise"
       THEN /\ file' \in {file, "empty"}
            /\ download_image_raise("write")
       ELSE /\ file' = content
            /\ pc' = "dl_close"
            /\ UNCHANGED dl
    /\ NoAlarm
    /\ UNCHANGED <<wfe, clicks, content>>
    /\ UNCHANGED <<prompt, hist, results, exit_status, cfevars, wgvars>>

\* line 399: image_page.close()
download_image_close(o) ==
    /\ pc = "dl_close"
    /\ Static
    /\ o # "False"
    /\ steps' = Append(steps, "close")
    /\ IF o = "raise" THEN download_image_raise("close")
       ELSE pc' = "dl_validate" /\ UNCHANGED dl
    /\ NoAlarm
    /\ UNCHANGED <<wfe, clicks, content, file>>
    /\ UNCHANGED <<prompt, hist, results, exit_status, cfevars, wgvars>>

\* lines 401-405: validate_image, return True; the wrapper returns it (line
\* 161) and main goes on at line 408
download_image_validate ==
    /\ pc = "dl_validate"
    /\ Static
    /\ steps' = Append(steps, "validate")
    /\ IF validate_image(file)
       THEN /\ main_next("download_image", "True", "m_success")
            /\ UNCHANGED dl
       ELSE /\ download_image_raise("Image validation failed")
            /\ UNCHANGED <<prompt, hist, results, exit_status>>
    /\ NoAlarm
    /\ UNCHANGED <<wfe, clicks, content, file>>
    /\ UNCHANGED <<cfevars, wgvars>>

\* the wrapper after its loop (lines 174-180) and what main does with it:
\* lines 397-406 for an exception, lines 387-396 for False
download_image_exhausted ==
    /\ pc = "dl_after"
    /\ Static
    /\ IF wrapper_after_loop(dl).kind = "raise"
       THEN main_fail("download_image", "raise", "Error downloading image")
       ELSE main_fail("download_image", wrapper_after_loop(dl).val,
                      "Failed to download the generated image after retries")
    /\ NoAlarm
    /\ UNCHANGED <<dvars, cfevars, wgvars>>

(***************************************************************************)
(* The run of main.                                                        *)
(***************************************************************************)
RetryIdle ==
    /\ t_pc = "idle" /\ t = NewFrame /\ t_result = NoResult /\ t_events = <<>>
    /\ t_logger = FALSE

Init ==
    /\ max_retries \in 0..MaxRetries
    /\ RetryIdle
    /\ HelpersIdle
    /\ pc = "m_setup" /\ alarm = "unset" /\ swallowed = FALSE
    /\ prompt_file \in PromptFiles
    /\ session_file \in SessionFiles
    /\ prompt = None
    /\ hist = <<>> /\ results = <<>> /\ exit_status = 0
    /\ cfe_caller = "none" /\ cfe_i = 0
    /\ elapsed = 0 /\ polls = <<>> /\ wg_exc = NoExc
    /\ dl = NewFrame /\ wfe = NewFrame /\ steps = <<>> /\ clicks = 0
    /\ content = "none" /\ file = "none"

Next ==
    \/ main_setup
    \/ main_read_prompt
    \/ main_load_session
    \/ \E o \in Outcomes : main_launch(o)
    \/ \E o \in Outcomes : main_apply_session(o)
    \/ \E o \in Outcomes : main_goto(o)
    \/ \E o \in Outcomes : cloudflare_check(o)
    \/ \E o \in Outcomes : cloudflare_moves(o)
    \/ \E o \in BareOutcomes : cloudflare_click(o)
    \/ \E o \in Outcomes : cloudflare_final(o)
    \/ \E o \in Outcomes : access_region(o)
    \/ \E o \in Outcomes : access_interface(o)
    \/ \E o \in BareOutcomes : access_screenshot(o)
    \/ \E o \in BareOutcomes : access_html(o)
    \/ \E o \in Outcomes : verify_navigation_title(o)
    \/ \E o \in Outcomes : verify_navigation_stable(o)
    \/ \E o \in Outcomes : check_for_errors_is_visible(o)
    \/ \E o \in BareOutcomes : check_for_errors_text(o)
    \/ \E o \in Outcomes : main_debug(o)
    \/ \E o \in Outcomes : main_has_input1(o)
    \/ main_wait_input
    \/ \E o \in Outcomes : main_has_input2(o)
    \/ \E o \in Outcomes : main_enter_prompt(o)
    \/ \E o \in Outcomes : main_submit(o)
    \/ main_check_errors
    \/ wait_for_image_generation_start
    \/ wait_for_image_generation_loop
    \/ \E o \in Outcomes : wait_for_image_generation_download(o)
    \/ \E o \in BareOutcomes : wait_for_image_generation_progress(o)
    \/ wait_for_image_generation_sleep
    \/ download_image_call
    \/ download_image_loop
    \/ \E o \in Outcomes : download_image_click(o)
    \/ download_image_wait
    \/ wait_for_element_loop
    \/ \E o \in Outcomes : wait_for_element_call(o)
    \/ \E o \in Outcomes : download_image_get_src(o)
    \/ \E o \in Outcomes : download_image_new_page(o)
    \/ \E o \in Outcomes : download_image_goto(o)
    \/ \E c \in Contents \cup {"raise"} : download_image_content(c)
    \/ download_image_extract
    \/ \E o \in Outcomes : download_image_write(o)
    \/ \E o \in Outcomes : download_image_close(o)
    \/ download_image_validate
    \/ download_image_exhausted
    \/ \E o \in Outcomes : main_close_exit(o)
    \/ main_except
    \/ main_success
    \/ \E o \in Outcomes : main_close_ok(o)
    \/ timeout_handler

Spec == Init /\ [][Next]_vars

(***************************************************************************)
(* Claims about the run of main.                                           *)
(***************************************************************************)
Range(q) == {q[i] : i \in 1..Len(q)}

\* hist holds a before position i
Earlier(a, i) == \E j \in 1..(i - 1) : hist[j] = a

\* C3: once the alarm armed by setup_global_timeout has gone off, the
\* process has exited with status 1 and main and its helpers take no
\* further step.
C3_TimeoutExits ==
    alarm = "fired" => (pc = "exited" /\ exit_status = 1)

\* C4: wait_for_image_generation returns True only when its last poll saw
\* the Download button visible; it returns False once check_for_errors
\* found an error indicator, and when it returned False without one the
\* timeout had elapsed and no poll had seen the button visible; it polls
\* only while the timeout has not elapsed.
C4_GenerationResult ==
    /\ pc = "dl_start" =>
          /\ hist[Len(hist)] = Step("wait_for_image_generation", "True")
          /\ polls # <<>> /\ polls[Len(polls)] = "visible"
    /\ "error" \in Range(polls) =>
          /\ Step("wait_for_image_generation", "False") \in Range(hist)
          /\ Step("wait_for_image_generation", "True") \notin Range(hist)
    /\ Step("wait_for_image_generation", "False") \in Range(hist) =>
          /\ "visible" \notin Range(polls)
          /\ "error" \in Range(polls) \/ elapsed >= GenTimeout
    /\ pc = "wg_download" => elapsed < GenTimeout

C4_Witness ==
    /\ pc = "dl_start"
    /\ polls = <<"hidden", "visible">>

\* C5: download_image ends by returning True or False, a failed download
\* by returning False: it never ends by raising to main.
C5_FailureReturnsFalse ==
    Step("download_image", "raise") \notin Range(hist)

\* C6: with the default MAX_RETRIES, when page.wait_for_selector timed out
\* in every attempt, wait_for_element returns False and download_image
\* takes its 'if not wait_for_element(...)' branch, raising "Could not find
\* the full-size image element".
C6_TimeoutReturnsFalse ==
    (/\ max_retries = DEFAULT_MAX_RETRIES
     /\ pc = "dl_loop"
     /\ steps # <<>> /\ steps[Len(steps)] = "wait_for_element"
     /\ wfe.attempts = wfe.calls)
        => dl.last_error.msg = "Could not find the full-size image element"

\* C7: when download_image returned True from its first attempt, that
\* attempt made the ten steps in the order click, wait_for_element,
\* get_attribute, new_page, goto, content, extract, write, close, validate,
\* each once, with one click in all, and the file at image_path exists and
\* is the image validate_image accepted.
C7_DownloadOrder ==
    (Step("download_image", "True") \in Range(hist) /\ dl.calls = 1)
        => /\ steps = DownloadSteps
           /\ clicks = 1
           /\ file # "none"
           /\ validate_image(file)

C7_Witness ==
    /\ pc = "m_success"
    /\ dl.calls = 1
    /\ steps = DownloadSteps
    /\ file = "png"

\* C8: every attempt of download_image starts with the click on the
\* Download button: past the click of an attempt, and when download_image
\* is over, the clicks are as many as the attempts made; when it returned
\* True at the k-th attempt after k-1 failed ones, there were exactly k
\* clicks, k <= max_retries.
C8_ClicksEqualAttempts ==
    /\ clicks <= dl.calls /\ dl.calls <= clicks + 1
    /\ pc \notin {"dl_click", "exited"} => clicks = dl.calls
    /\ (\E r \in {"True", "False", "raise"} : Step("download_image", r) \in Range(hist))
          => clicks = dl.calls
    /\ Step("download_image", "True") \in Range(hist)
          => /\ clicks = dl.attempts + 1
             /\ clicks <= max_retries

C8_Witness ==
    /\ pc = "m_success"
    /\ clicks = 3
    /\ dl.attempts = 2
    /\ dl.last_error = Exc("click", 2)

\* C9: main reaches the submit click only after the prompt was entered
\* successfully, calls wait_for_image_generation only after the submit
\* click succeeded and check_for_errors then found nothing, calls
\* download_image only after wait_for_image_generation returned True, and
\* logs SUCCESS only right after download_image returned True, the last
\* attempt having written the file and validate_image having accepted it.
C9_MainOrder ==
    /\ pc = "m_submit" => Step("enter_prompt", "True") \in Range(hist)
    /\ \A i \in 1..Len(hist) :
         /\ hist[i].step = "submit" => Earlier(Step("enter_prompt", "True"), i)
         /\ hist[i] = Step("wait_for_image_generation", "call") =>
               /\ hist[i - 1] = Step("check_for_errors", "False")
               /\ hist[i - 2] = Step("submit", "True")
         /\ hist[i] = Step("download_image", "call") =>
               hist[i - 1] = Step("wait_for_image_generation", "True")
         /\ hist[i] = Step("log_session_result", "SUCCESS") =>
               /\ hist[i - 1] = Step("download_image", "True")
               /\ SubSeq(steps, Len(steps) - 2, Len(steps)) = <<"write", "close", "validate">>
               /\ validate_image(file)

C9_Witness ==
    /\ pc = "exited" /\ exit_status = 0
    /\ Step("log_session_result", "SUCCESS") \in Range(hist)

\* prompt.txt is missing, unreadable, or holds nothing but whitespace
NoPrompt(f) ==
    \/ f \in {Missing, Unreadable}
    \/ \A i \in 1..Len(f) : f[i] \in Whitespace

\* p is f without its leading and trailing whitespace
Stripped(p, f) ==
    \E a \in 1..Len(f) : \E b \in a..Len(f) :
        /\ p = SubSeq(f, a, b)
        /\ f[a] \notin Whitespace /\ f[b] \notin Whitespace
        /\ \A i \in 1..Len(f) : (i < a \/ i > b) => f[i] \in Whitespace

\* C10: read_prompt never returns an empty string; once main has called it,
\* if prompt.txt is missing, unreadable or empty after stripping, prompt is
\* None and main has logged one FAILURE result with prompt "N/A" and exited
\* with status 1 having done nothing else (no session load, no browser, no
\* page interaction); otherwise prompt is the stripped content and main went
\* on to load the session.
C10_PromptGuard ==
    /\ read_prompt(prompt_file) # <<>>
    /\ (hist # <<>> /\ NoPrompt(prompt_file)) =>
          /\ prompt = None
          /\ pc = "exited" /\ exit_status = 1
          /\ results = <<[status |-> "FAILURE", prompt |-> NA,
                          error |-> "Missing or empty prompt.txt file"]>>
          /\ hist = <<Step("read_prompt", "None"), Step("log_session_result", "FAILURE")>>
    /\ (hist # <<>> /\ ~NoPrompt(prompt_file)) =>
          /\ Stripped(prompt, prompt_file)
          /\ hist[1] = Step("read_prompt", "str")
          /\ Len(hist) = 1 => pc \in {"m_load_session", "exited"}
          /\ Len(hist) > 1 => hist[2].step = "load_session"

C10_Witness ==
    /\ prompt_file = <<" ">>
    /\ pc = "exited" /\ exit_status = 1
    /\ results # <<>> /\ results[1].prompt = NA

\* main is inside a poll of wait_for_image_generation: after a loop test
\* that found time left and before the next one
InPoll ==
    \/ pc \in {"wg_download", "wg_progress", "wg_sleep"}
    \/ pc \in {"cfe_visible", "cfe_text"} /\ cfe_caller = "wg_poll"

\* wait_for_image_generation has returned
WgReturned ==
    \E i \in 1..Len(hist) :
        hist[i].step = "wait_for_image_generation" /\ hist[i].r # "call"

\* wait_for_image_generation returns True or False, and polls only while
\* the timeout has not elapsed
WgBoolean ==
    /\ \A i \in 1..Len(hist) :
         hist[i].step = "wait_for_image_generation" =>
             hist[i].r \in {"call", "True", "False"}
    /\ InPoll => elapsed < GenTimeout

\* C16: wait_for_image_generation returns a boolean and polls only while
\* the timeout has not elapsed; once a page query of a poll has raised an
\* exception, a line has been logged for it and the call does not return
\* before the next loop test.
C16_PollExceptions ==
    /\ WgBoolean
    /\ wg_exc.query # "none" => wg_exc.logged /\ ~WgReturned

\* C16 as amended: only the exception of the download-button query is
\* logged and followed at once by the sleep and the next loop test; the
\* exceptions of check_for_errors' visibility queries and of the progress
\* queries are passed over without a log line and the poll goes on as if
\* the query had answered no; the exception of check_for_errors'
\* text_content is logged as a detected error element and the call returns
\* False in that poll.
C16_PollExceptionsAmended ==
    /\ WgBoolean
    /\ wg_exc.query = "download.is_visible" =>
         /\ wg_exc.logged
         /\ polls[Len(polls)] = "raise"
         /\ pc = "wg_loop" \/ (pc = "exited" /\ ~WgReturned)
    /\ wg_exc.query = "check_for_errors.is_visible" =>
         /\ ~wg_exc.logged
         /\ \/ InPoll \/ pc = "wg_loop"
            \/ pc = "exited" /\ ~WgReturned
            \/ WgReturned /\ polls[Len(polls)] = "error"
    /\ wg_exc.query = "progress" =>
         /\ ~wg_exc.logged
         /\ pc \in {"wg_sleep", "wg_loop"} \/ (pc = "exited" /\ ~WgReturned)
    /\ wg_exc.query = "check_for_errors.text_content" =>
         /\ wg_exc.logged
         /\ polls[Len(polls)] = "error"
         /\ Step("wait_for_image_generation", "False") \in Range(hist)
         /\ Step("wait_for_image_generation", "True") \notin Range(hist)

C16_Witness ==
    /\ wg_exc = PageExc("check_for_errors.text_content", TRUE)
    /\ polls = <<"raise", "hidden", "error">>
    /\ pc = "m_close_exit"
    /\ results # <<>> /\ results[Len(results)].error = GenerationFailed

\* the process was ended by timeout_handler's sys.exit(1)
ExitByTimeout == pc = "exited" /\ alarm = "fired" /\ ~swallowed

\* C17: a run of main never logs more than one session result, and when it
\* has ended other than by the global timeout it has logged exactly one:
\* a FAILURE with exit status 1, or a SUCCESS with a normal return.
C17_OneResult ==
    /\ Len(results) <= 1
    /\ (pc = "exited" /\ ~ExitByTimeout) =>
         /\ Len(results) = 1
         /\ results[1].status = "FAILURE" => exit_status = 1
         /\ results[1].status = "SUCCESS" => exit_status = 0

\* the positions in hist of the checks for an input element
InputChecks == {i \in 1..Len(hist) : hist[i].step = "has_input"}

\* C18: main checks for an input element at most twice; a second check is
\* made only after the first found none and a 15-second sleep; main fails
\* with "Could not find any input elements using JavaScript" exactly when
\* two checks found none, and then never enters the prompt; when a check
\* finds an input element, main goes on to enter the prompt.
C18_InputChecks ==
    /\ Cardinality(InputChecks) <= 2
    /\ \A i, j \in InputChecks :
         i < j => /\ j = i + 2
                  /\ hist[i] = Step("has_input", "False")
                  /\ hist[i + 1] = Step("time.sleep", "15")
    /\ \A i \in InputChecks :
         (Cardinality(InputChecks) = 1 /\ hist[i].r = "False") =>
             \/ i = Len(hist) /\ (pc = "m_wait_input" \/ ExitByTimeout)
             \/ /\ i + 1 = Len(hist) /\ hist[i + 1] = Step("time.sleep", "15")
                /\ pc = "m_has_input2" \/ ExitByTimeout
    /\ (\E k \in 1..Len(results) : results[k].error = InputNotFound) <=>
         /\ Cardinality(InputChecks) = 2
         /\ \A i \in InputChecks : hist[i].r = "False"
    /\ (\E i \in 1..Len(hist) : hist[i].step = "enter_prompt") =>
         /\ \E i \in InputChecks : hist[i].r = "True"
         /\ \A k \in 1..Len(results) : results[k].error # InputNotFound
    /\ \A i \in InputChecks :
         hist[i].r = "True" =>
             \/ i = Len(hist) /\ (pc = "m_enter_prompt" \/ ExitByTimeout)
             \/ i < Len(hist) /\ hist[i + 1].step = "enter_prompt"

C18_Witness ==
    /\ \E i \in 1..Len(hist) :
         /\ i + 3 <= Len(hist)
         /\ hist[i] = Step("has_input", "False")
         /\ hist[i + 1] = Step("time.sleep", "15")
         /\ hist[i + 2] = Step("has_input", "True")
         /\ hist[i + 3] = Step("enter_prompt", "True")
    /\ pc = "m_submit"

(***************************************************************************)
(* SpecWait: wait_for_element(page, selector, logger, timeout, state)      *)
(* (sora_utils.py 185-215) under @with_retry(), called once                *)
(* (TestWaitForElement, lines 677-715).                                    *)
(***************************************************************************)
Selectors == {"test-selector", "img.fullsize-image"}
\* the state argument: omitted, or one of Playwright's states
StateArgs == {"default", "visible", "hidden", "attached", "detached"}

\* the calls wait_for_element(page, selector, logger, timeout=..., state=...)
WaitArgs ==
    [selector : Selectors, timeout_given : {TRUE}, timeout : 0..MaxWaitArg,
     state : StateArgs]
    \cup [selector : Selectors, timeout_given : {FALSE}, timeout : {0},
          state : StateArgs]

\* lines 201-202: if timeout is None: timeout = int(CONFIG["WAIT_TIMEOUT"])
wait_for_element_timeout(a) ==
    IF a.timeout_given THEN a.timeout ELSE WAIT_TIMEOUT

\* line 187: state: str = "visible"
wait_for_element_state(a) ==
    IF a.state = "default" THEN "visible" ELSE a.state

\* mutant: the timeout is passed on in seconds
wait_for_selector_args_seconds(a) ==
    [selector |-> a.selector, state |-> wait_for_element_state(a),
     timeout |-> wait_for_element_timeout(a)]

\* line 208: page.wait_for_selector(selector, state=state, timeout=timeout * 1000)
wait_for_selector_args(a) ==
    [selector |-> a.selector, state |-> wait_for_element_state(a),
     timeout |-> wait_for_element_timeout(a) * MS_PER_S]

WaitStatic == UNCHANGED <<corevars, lvars, fvars, kvars>>

\* the wrapper's loop test (line 159)
wait_loop ==
    /\ w_pc = "loop"
    /\ WaitStatic
    /\ w_pc' = IF wrapper_loop_test(w) THEN "call" ELSE "after"
    /\ UNCHANGED <<w_args, w, w_calls, w_result>>

\* lines 161, 201-215: wait_for_element's body; page.wait_for_selector
\* returns, or raises and the wrapper's except branch runs (162-172)
wait_call(o) ==
    /\ w_pc = "call"
    /\ WaitStatic
    /\ o # "False"
    /\ w_calls' = Append(w_calls, wait_for_selector_args(w_args))
    /\ IF o = "True"
       THEN /\ w' = wrapper_call(w)
            /\ w_result' = Returned("True")
            /\ w_pc' = "done"
       ELSE /\ w' = wrapper_except(wrapper_call(w), Exc("wait_for_selector", w.calls + 1))
            /\ w_pc' = "loop"
            /\ UNCHANGED w_result
    /\ UNCHANGED w_args

\* after the loop (lines 174-180)
wait_exhausted ==
    /\ w_pc = "after"
    /\ WaitStatic
    /\ w_result' = wrapper_after_loop(w)
    /\ w_pc' = "done"
    /\ UNCHANGED <<w_args, w, w_calls>>

InitWait ==
    /\ max_retries \in 0..MaxRetries
    /\ RetryIdle
    /\ MainIdle
    /\ LogIdle
    /\ NameIdle
    /\ CookiesIdle
    /\ w_pc = "loop"
    /\ w_args \in WaitArgs
    /\ w = NewFrame /\ w_calls = <<>> /\ w_result = NoResult

NextWait ==
    \/ wait_loop
    \/ \E o \in Outcomes : wait_call(o)
    \/ wait_exhausted

SpecWait == InitWait /\ [][NextWait]_vars

\* C13: every call of page.wait_for_selector made by wait_for_element has
\* the selector it was given, the state it was given ("visible" when none
\* was), and as timeout the seconds it was given times 1000 (60000 when
\* none were); when the first call did not raise, it is the only call and
\* wait_for_element returned True.
C13_WaitArgs ==
    /\ \A i \in 1..Len(w_calls) :
         /\ w_calls[i].selector = w_args.selector
         /\ w_args.state = "default" => w_calls[i].state = "visible"
         /\ w_args.state # "default" => w_calls[i].state = w_args.state
         /\ w_args.timeout_given => w_calls[i].timeout = 1000 * w_args.timeout
         /\ ~w_args.timeout_given => w_calls[i].timeout = 60000
    /\ Len(w_calls) = w.calls
    /\ (w.calls >= 1 /\ w.attempts = 0 /\ w_pc # "call") =>
         /\ w_pc = "done"
         /\ w.calls = 1
         /\ w_result = Returned("True")

C13_Witness ==
    /\ w_pc = "done"
    /\ w_args = [selector |-> "test-selector", timeout_given |-> TRUE,
                 timeout |-> 1, state |-> "default"]
    /\ w_calls = <<[selector |-> "test-selector", state |-> "visible", timeout |-> 1000]>>
    /\ w_result = Returned("True")

(***************************************************************************)
(* SpecLog: log_session_result(logger, prompt, status, file_path, error,   *)
(* elapsed_time) (sora_utils.py 411-436), called once.  Texts are          *)
(* sequences, None is the value None; elapsed_time counts tenths of a      *)
(* second, the precision of the "Time:" line.                              *)
(***************************************************************************)
LogPrompts == {<<"a">>, NA}
Statuses == {"SUCCESS", "FAILURE", "OTHER"}
FilePaths == {None, <<>>, <<"images/x.png">>}
ErrorTexts == {None, <<>>, <<"Something went wrong">>}

\* the calls log_session_result(logger, prompt, status, ...)
LogArgs ==
    [prompt : LogPrompts, status : Statuses, file_path : FilePaths,
     error : ErrorTexts, elapsed_given : {TRUE}, elapsed_time : 0..MaxElapsed]
    \cup [prompt : LogPrompts, status : Statuses, file_path : FilePaths,
          error : ErrorTexts, elapsed_given : {FALSE}, elapsed_time : {0}]

\* a line written by logger.info / logger.error
Line(level, kind, text) == [level |-> level, kind |-> kind, text |-> text]
Separator == Line("info", "separator", <<>>)

\* line 431: if elapsed_time: (None and 0.0 are false)
TruthyTime(a) == a.elapsed_given /\ a.elapsed_time # 0

LogStatic == UNCHANGED <<corevars, wvars, fvars, kvars>>

\* line 425: logger.info("-" * 50)
log_session_result_open ==
    /\ l_pc = "open"
    /\ LogStatic
    /\ l_lines' = Append(l_lines, Separator)
    /\ l_pc' = "prompt"
    /\ UNCHANGED l_args

\* line 426: logger.info(f"Prompt used: \"{prompt}\"")
log_session_result_prompt ==
    /\ l_pc = "prompt"
    /\ LogStatic
    /\ l_lines' = Append(l_lines, Line("info", "Prompt used", l_args.prompt))
    /\ l_pc' = "status"
    /\ UNCHANGED l_args

\* line 427: logger.info(f"Status: {status}")
log_session_result_status ==
    /\ l_pc = "status"
    /\ LogStatic
    /\ l_lines' = Append(l_lines, Line("info", "Status", <<l_args.status>>))
    /\ l_pc' = "detail"
    /\ UNCHANGED l_args

\* lines 429-430 and 433-434: the File: line, the Error: line, or neither
log_session_result_detail ==
    /\ l_pc = "detail"
    /\ LogStatic
    /\ IF l_args.status = "SUCCESS" /\ Truthy(l_args.file_path)
       THEN /\ l_lines' = Append(l_lines, Line("info", "File", l_args.file_path))
            /\ l_pc' = "time"
       ELSE IF l_args.status = "FAILURE" /\ Truthy(l_args.error)
       THEN /\ l_lines' = Append(l_lines, Line("error", "Error", l_args.error))
            /\ l_pc' = "close"
       ELSE /\ l_pc' = "close"
            /\ UNCHANGED l_lines
    /\ UNCHANGED l_args

\* lines 431-432: if elapsed_time: logger.info(f"Time: {elapsed_time:.1f}s")
log_session_result_time ==
    /\ l_pc = "time"
    /\ LogStatic
    /\ l_lines' = IF TruthyTime(l_args)
                  THEN Append(l_lines, Line("info", "Time", <<l_args.elapsed_time>>))
                  ELSE l_lines
    /\ l_pc' = "close"
    /\ UNCHANGED l_args

\* line 436: logger.info("-" * 50)
log_session_result_close ==
    /\ l_pc = "close"
    /\ LogStatic
    /\ l_lines' = Append(l_lines, Separator)
    /\ l_pc' = "done"
    /\ UNCHANGED l_args

InitLog ==
    /\ max_retries \in 0..MaxRetries
    /\ RetryIdle
    /\ MainIdle
    /\ WaitIdle
    /\ NameIdle
    /\ CookiesIdle
    /\ l_pc = "open"
    /\ l_args \in LogArgs
    /\ l_lines = <<>>

NextLog ==
    \/ log_session_result_open
    \/ log_session_result_prompt
    \/ log_session_result_status
    \/ log_session_result_detail
    \/ log_session_result_time
    \/ log_session_result_close

SpecLog == InitLog /\ [][NextLog]_vars

\* the positions of the lines of one kind
LinesOf(kind) == {i \in 1..Len(l_lines) : l_lines[i].kind = kind}

\* the frame and the necessary conditions of the detail lines: separator,
\* prompt, status, details, separator; File: only for SUCCESS with a
\* file_path, Time: only after File:, Error: only for FAILURE with an error
LogShape ==
    /\ Len(l_lines) >= 4
    /\ l_lines[1] = Separator
    /\ l_lines[2] = Line("info", "Prompt used", l_args.prompt)
    /\ l_lines[3] = Line("info", "Status", <<l_args.status>>)
    /\ l_lines[Len(l_lines)] = Separator
    /\ \A i \in 4..(Len(l_lines) - 1) : l_lines[i].kind \in {"File", "Time", "Error"}
    /\ \A i \in LinesOf("File") :
         /\ i = 4
         /\ l_args.status = "SUCCESS"
         /\ l_args.file_path \notin {None, <<>>}
         /\ l_lines[i].text = l_args.file_path
    /\ \A i \in LinesOf("Time") :
         /\ i = 5
         /\ 4 \in LinesOf("File")
         /\ l_args.elapsed_given
         /\ l_lines[i].text = <<l_args.elapsed_time>>
    /\ \A i \in LinesOf("Error") :
         /\ i = 4
         /\ l_args.status = "FAILURE"
         /\ l_args.error \notin {None, <<>>}
         /\ l_lines[i].text = l_args.error
    /\ l_args.status = "FAILURE" => LinesOf("File") \cup LinesOf("Time") = {}
    /\ l_args.status = "SUCCESS" => LinesOf("Error") = {}

\* C14: when log_session_result has returned, it has logged a separator,
\* the prompt line, the status line, the detail lines and a separator; a
\* File: line only for SUCCESS with a file_path, followed by a Time: line
\* when elapsed_time is given (is not None); an Error: line only for
\* FAILURE with an error; no File:/Time: line for FAILURE and no Error:
\* line for SUCCESS.
C14_LogLines ==
    l_pc = "done" =>
        /\ LogShape
        /\ (LinesOf("File") # {} /\ l_args.elapsed_given) => 5 \in LinesOf("Time")

(***************************************************************************)
(* SpecName: generate_image_filename(prompt, image_dir)                    *)
(* (sora_utils.py 103-126).  Paths and names are sequences of characters;  *)
(* a directory name is one element of the sequence.                        *)
(***************************************************************************)
NamePrompts == {"Test prompt", "a"}
\* image_dir: None, or a directory
DirArgs == {"None", "images", "test_images"}
\* CONFIG["IMAGE_DIR"]
IMAGE_DIR == "images"

\* the values datetime.now() returns
Clocks ==
    [Y : {2025}, m : {1, 12}, d : {9}, H : {0, 23}, M : {5}, S : {59}]

DigitChars == <<"0", "1", "2", "3", "4", "5", "6", "7", "8", "9">>

\* the decimal digits of a natural number
RECURSIVE decimal(_)
decimal(n) ==
    IF n < 10 THEN <<DigitChars[n + 1]>>
    ELSE Append(decimal(n \div 10), DigitChars[(n % 10) + 1])

\* zero padding to a width, as strftime's %m, %d, %H, %M and %S do
RECURSIVE zfill(_, _)
zfill(s, width) == IF Len(s) >= width THEN s ELSE zfill(<<"0">> \o s, width)

\* mutant: the fields are written without zero padding
strftime_unpadded(c) ==
    decimal(c.Y) \o decimal(c.m) \o decimal(c.d) \o <<"_">>
    \o decimal(c.H) \o decimal(c.M) \o decimal(c.S)

\* line 120: datetime.now().strftime("%Y%m%d_%H%M%S")
strftime(c) ==
    zfill(decimal(c.Y), 4) \o zfill(decimal(c.m), 2) \o zfill(decimal(c.d), 2)
    \o <<"_">>
    \o zfill(decimal(c.H), 2) \o zfill(decimal(c.M), 2) \o zfill(decimal(c.S), 2)

\* hashlib.md5(prompt.encode()).hexdigest() for the prompts of NamePrompts
md5_hexdigest(p) ==
    IF p = "Test prompt"
    THEN <<"e","6","f","4","5","2","9","f","8","2","6","4","1","0","e","4",
           "9","4","1","f","5","b","d","4","0","9","7","e","6","1","7","2">>
    ELSE <<"0","c","c","1","7","5","b","9","c","0","f","1","b","6","a","8",
           "3","1","c","3","9","9","e","2","6","9","7","7","2","6","6","1">>

\* line 122: prompt_hash = ...hexdigest()[:6]
prompt_hash(p) == SubSeq(md5_hexdigest(p), 1, HASH_LEN)

\* line 124: filename = f"{timestamp}_{prompt_hash}.png"
image_filename(c, p) ==
    strftime(c) \o <<"_">> \o prompt_hash(p) \o <<".", "p", "n", "g">>

\* lines 114-115: if image_dir is None: image_dir = CONFIG["IMAGE_DIR"]
image_dir_of(d) == IF d = "None" THEN IMAGE_DIR ELSE d

\* line 126: os.path.join(image_dir, filename)
path_join(d, name) == <<d, "/">> \o name

NameStatic == UNCHANGED <<corevars, wvars, lvars, kvars>>

\* lines 114-118: the default directory; os.makedirs when it does not exist
generate_image_filename_makedirs(p, d) ==
    /\ f_pc = "call"
    /\ NameStatic
    /\ f_args' = [prompt |-> p, image_dir |-> d,
                  created |-> image_dir_of(d) \notin f_fs]
    /\ f_fs' = f_fs \cup {image_dir_of(d)}
    /\ f_pc' = "name"
    /\ UNCHANGED f_out

\* lines 120-126: the timestamp, the hash, the filename and the path
generate_image_filename_return(c) ==
    /\ f_pc = "name"
    /\ NameStatic
    /\ f_out' = Append(f_out,
                       [prompt |-> f_args.prompt, image_dir |-> f_args.image_dir,
                        created |-> f_args.created, now |-> c,
                        path |-> path_join(image_dir_of(f_args.image_dir),
                                           image_filename(c, f_args.prompt))])
    /\ f_pc' = IF Len(f_out) + 1 < MaxNameCalls THEN "call" ELSE "done"
    /\ UNCHANGED <<f_args, f_fs>>

InitName ==
    /\ max_retries = DEFAULT_MAX_RETRIES
    /\ RetryIdle
    /\ MainIdle
    /\ WaitIdle
    /\ LogIdle
    /\ CookiesIdle
    /\ f_pc = "call"
    /\ f_args = [prompt |-> "None", image_dir |-> "None", created |-> FALSE]
    /\ f_fs \in SUBSET {"images", "test_images"}
    /\ f_out = <<>>

NextName ==
    \/ \E p \in NamePrompts, d \in DirArgs : generate_image_filename_makedirs(p, d)
    \/ \E c \in Clocks : generate_image_filename_return(c)

SpecName == InitName /\ [][NextName]_vars

\* the position of the last "/" of a path (0 when there is none)
LastSlash(path) ==
    LET S == {i \in 1..Len(path) : path[i] = "/"}
    IN  IF S = {} THEN 0 ELSE CHOOSE i \in S : \A j \in S : j <= i

\* os.path.basename and os.path.dirname
Basename(path) == SubSeq(path, LastSlash(path) + 1, Len(path))
Dirname(path) == SubSeq(path, 1, LastSlash(path) - 1)

\* basename.split("_"), as test_generate_image_filename does
RECURSIVE Split(_)
Split(s) ==
    LET U == {i \in 1..Len(s) : s[i] = "_"}
    IN  IF U = {} THEN <<s>>
        ELSE LET k == CHOOSE i \in U : \A j \in U : i <= j
             IN  <<SubSeq(s, 1, k - 1)>> \o Split(SubSeq(s, k + 1, Len(s)))

IsDigits(s) == \A i \in 1..Len(s) : \E k \in 1..10 : s[i] = DigitChars[k]
HexChars == {"0","1","2","3","4","5","6","7","8","9","a","b","c","d","e","f"}

\* the hash part of a returned path: the third part without ".png"
HashPart(path) == SubSeq(Split(Basename(path))[3], 1, 6)

\* C15: after every call of generate_image_filename that returned, its
\* directory exists; the returned path lies in that directory; its base
\* name splits at "_" into exactly three parts, 8 digits, 6 digits, and 6
\* hexadecimal characters followed by ".png"; two calls with the same
\* prompt have the same hash part.
C15_Filename ==
    /\ \A i \in 1..Len(f_out) :
         LET o == f_out[i]
             dir == IF o.image_dir = "None" THEN "images" ELSE o.image_dir
             parts == Split(Basename(o.path))
         IN  /\ dir \in f_fs
             /\ Dirname(o.path) = <<dir>>
             /\ Len(parts) = 3
             /\ Len(parts[1]) = 8 /\ IsDigits(parts[1])
             /\ Len(parts[2]) = 6 /\ IsDigits(parts[2])
             /\ Len(parts[3]) = 10
             /\ SubSeq(parts[3], 7, 10) = <<".", "p", "n", "g">>
             /\ \A k \in 1..6 : parts[3][k] \in HexChars
    /\ \A i, j \in 1..Len(f_out) :
         f_out[i].prompt = f_out[j].prompt =>
             HashPart(f_out[i].path) = HashPart(f_out[j].path)
    /\ f_pc = "name" => image_dir_of(f_args.image_dir) \in f_fs

C15_Witness ==
    /\ Len(f_out) = 2
    /\ f_out[1].created
    /\ f_out[1].image_dir = "test_images"
    /\ f_out[1].prompt = f_out[2].prompt
    /\ f_out[1].now # f_out[2].now
    /\ f_out[1].path # f_out[2].path
    /\ f_out[1].now.m = 1 /\ f_out[1].now.H = 0

(***************************************************************************)
(* SpecCookies: the cookies of apply_session_state                         *)
(* (stealth_launcher.py 464-490).  A cookie is a function from its keys    *)
(* to their values; every value is a text.                                 *)
(***************************************************************************)
\* the keys a cookie of an exported session can have
CookieKeys == {"name", "sameSite", "expires", "expirationDate", "hostOnly"}

ValuesOf(k) ==
    CASE k = "name" -> {"sid"}
      [] k = "sameSite" -> {"no_restriction", "lax", "strict", "unspecified"}
      [] k = "expires" -> {"1700000000"}
      [] k = "expirationDate" -> {"1800000000"}
      [] k = "hostOnly" -> {"false"}

CookieValues == UNION {ValuesOf(k) : k \in CookieKeys}

Cookies ==
    {c \in UNION {[K -> CookieValues] : K \in SUBSET CookieKeys} :
        /\ "name" \in DOMAIN c
        /\ \A k \in DOMAIN c : c[k] \in ValuesOf(k)}

\* line 479: the keys that are kept
AllowedKeys ==
    {"name", "value", "domain", "path", "expires", "httpOnly", "secure", "sameSite"}

\* lines 470-476
rewrite_sameSite(c) ==
    IF "sameSite" \in DOMAIN c
    THEN [c EXCEPT !["sameSite"] =
            CASE @ = "no_restriction" -> "None"
              [] @ = "lax" -> "Lax"
              [] @ = "strict" -> "Strict"
              [] OTHER -> @]
    ELSE c

\* lines 478-480: del processed_cookie[key] for every other key
filter_keys(c) == [k \in DOMAIN c \cap AllowedKeys |-> c[k]]

\* lines 482-483: processed_cookie["expires"] = processed_cookie.pop("expirationDate")
rename_expiration(c) ==
    IF "expirationDate" \in DOMAIN c
    THEN [k \in (DOMAIN c \ {"expirationDate"}) \cup {"expires"} |->
            IF k = "expires" THEN c["expirationDate"] ELSE c[k]]
    ELSE c

\* lines 468-483: the body of the loop, in the order of the code
process_cookie(c) == rename_expiration(filter_keys(rewrite_sameSite(c)))

CookiesStatic == UNCHANGED <<corevars, wvars, lvars, fvars>>

\* lines 467-485: one pass of 'for cookie in cookies'
apply_session_state_cookie ==
    /\ k_pc = "loop"
    /\ CookiesStatic
    /\ Len(k_processed) < Len(k_cookies)
    /\ k_processed' = Append(k_processed, process_cookie(k_cookies[Len(k_processed) + 1]))
    /\ UNCHANGED <<k_pc, k_cookies, k_added>>

\* line 490: context.add_cookies(processed_cookies)
apply_session_state_add_cookies ==
    /\ k_pc = "loop"
    /\ CookiesStatic
    /\ Len(k_processed) = Len(k_cookies)
    /\ k_added' = k_processed
    /\ k_pc' = "added"
    /\ UNCHANGED <<k_cookies, k_processed>>

InitCookies ==
    /\ max_retries = DEFAULT_MAX_RETRIES
    /\ RetryIdle
    /\ MainIdle
    /\ WaitIdle
    /\ LogIdle
    /\ NameIdle
    /\ k_pc = "loop"
    /\ k_cookies \in UNION {[1..n -> Cookies] : n \in 0..MaxCookies}
    /\ k_processed = <<>>
    /\ k_added = <<>>

NextCookies ==
    \/ apply_session_state_cookie
    \/ apply_session_state_add_cookies

SpecCookies == InitCookies /\ [][NextCookies]_vars

\* the keys and the sameSite value of the cookies added to the context:
\* one cookie per cookie of the session file, only allowed keys, every
\* allowed key of the input kept, sameSite rewritten
CookieShape ==
    /\ Len(k_added) = Len(k_cookies)
    /\ \A i \in 1..Len(k_added) :
         LET in == k_cookies[i]
             out == k_added[i]
         IN  /\ DOMAIN out \subseteq AllowedKeys
             /\ "sameSite" \in DOMAIN in =>
                  /\ "sameSite" \in DOMAIN out
                  /\ in["sameSite"] = "no_restriction" => out["sameSite"] = "None"
                  /\ in["sameSite"] = "lax" => out["sameSite"] = "Lax"
                  /\ in["sameSite"] = "strict" => out["sameSite"] = "Strict"
                  /\ in["sameSite"] = "unspecified" => out["sameSite"] = "unspecified"
             /\ out["name"] = in["name"]

\* C19: every cookie added to the browser context has only keys among
\* name, value, domain, path, expires, httpOnly, secure and sameSite, has
\* sameSite no_restriction/lax/strict rewritten to None/Lax/Strict, and,
\* when the cookie of the session file has an expirationDate, has expires
\* equal to it.
C19_Cookies ==
    k_pc = "added" =>
        /\ CookieShape
        /\ \A i \in 1..Len(k_added) :
             "expirationDate" \in DOMAIN k_cookies[i] =>
                 /\ "expires" \in DOMAIN k_added[i]
                 /\ k_added[i]["expires"] = k_cookies[i]["expirationDate"]

=============================================================================
